---- MODULE Spec2Model ----
(***************************************************************************)
(* Verification model of cryptainer: the volume lifecycle code of          *)
(* controller.py (VolumeController), manager.py (VolumeManager) and the    *)
(* two backend tools of volumes/gocryptfs.py and volumes/veracrypt.py.     *)
(*                                                                         *)
(* The file system, the OS mount table and the external commands are the   *)
(* environment.  Paths and the output of `mount` are sequences of          *)
(* characters, so that suffix tests and substring searches are computed    *)
(* the way the Python code computes them.                                  *)
(*                                                                         *)
(* The tool bodies are those of volumes/*.py.  VolumeManager hands a tool  *)
(* a volume name, from which the tool derives volumes_dir/name and         *)
(* mount_dir/name.  VolumeController hands a tool the paths it derived     *)
(* itself (controller.py:117, 171, 194); a tool body then runs on the      *)
(* paths it was handed (pathlib: dir / absolute_path = absolute_path).     *)
(***************************************************************************)
EXTENDS Integers, Sequences, FiniteSets, TLC

\* ------------------------------------------------------------------ bounds
\* Number of operations (program or environment) in one run.
MaxOps == 3

\* Answers the operator gives in one cleanup sweep before the input ends.
MaxAnswers == 2

\* Saves of the registry in one process.
MaxSaves == 2

\* Names given to one mount or unmount command.
MaxNames == 2

\* ------------------------------------------------------------------ names
\* Two volume names: "v" and "v.hc".  "v" is a proper prefix of "v.hc", and
\* only "v.hc" carries the veracrypt suffix.
NameV == <<"v">>
NameHc == <<"v", ".", "h", "c">>
Names == {NameV, NameHc}
NameSeq == <<NameV, NameHc>>

Types == {"gocryptfs", "veracrypt"}
NoSecret == "none"
Secrets == {"s1", "g1"}
NoSize == "none"
Sizes == {NoSize, "10M"}

\* The sizes tried for a volume of type t: --size is accepted with every type.
SizesFor(t) == Sizes

\* config "volumes_dir" and "mount_dir", resolved to absolute paths.
volume_dir == <<"/", "s">>
mount_dir == <<"/", "m">>

\* ------------------------------------------------------------------ paths
\* A path under one of the two roots.
VolPath(n) == [root |-> "vol", name |-> n]
MntPath(n) == [root |-> "mnt", name |-> n]

\* str(path): base_dir / name
PathStr(p) == (IF p.root = "vol" THEN volume_dir ELSE mount_dir) \o <<"/">> \o p.name

\* str.endswith
EndsWith(s, suffix) ==
    /\ Len(s) >= Len(suffix)
    /\ SubSeq(s, Len(s) - Len(suffix) + 1, Len(s)) = suffix

\* Python's `pat in text` on strings: substring search.
Contains(text, pat) ==
    \E i \in 1..(Len(text) - Len(pat) + 1) : SubSeq(text, i, i + Len(pat) - 1) = pat

HcSuffix == <<".", "h", "c">>

\* ------------------------------------------------------------------ state
VARIABLES
    storage,     \* entry at volumes_dir/n: "absent", "file", "dir", "dir_conf"
    mdir,        \* directory mount_dir/n itself: "absent", "empty", "nonempty"
    mounts,      \* OS mount table at mount_dir/n: "none", "gocryptfs", "veracrypt", "other",
                 \* or a gocryptfs mount on top of one of these ("gocryptfs/..." )
    metadata,    \* VolumeManager.metadata: n -> "none" or a type
    kpStore,     \* Keepass database: n -> NoSecret or a secret
    cSnap,       \* VolumeController._mount_cmd_result
    mSnap,       \* VolumeManager._mount_cmd_result
    cAt,         \* the operation that captured cSnap (0: none yet, k: the k-th)
    mAt,         \* the operation that captured mSnap (0: the constructor)
    ctime,       \* st_ctime of the entry at volumes_dir/n, as VolumeManager reads it
    res,         \* what the last operation did and reported
    driver,      \* what this run drives: the object of class "controller" or
                 \* "manager", or the program of cli.py ("cli"), run after run
    nops,        \* operations so far
    meta_file,   \* the registry file volumes.json: whether it exists, and its text
    proc         \* a manager process across saves of the registry, a stop and
                 \* the next start: where it is (pc), the pieces still to write
                 \* (todo), the registry of before the last save begun (prev) and
                 \* the one it saves (new), the saves done, what the load raised

vars == <<storage, mdir, mounts, metadata, kpStore, cSnap, mSnap, cAt, mAt, ctime, res,
          driver, nops, meta_file, proc>>

\* ------------------------------------------------------------------ world
\* The part of the state a backend tool acts on, with the commands it ran
\* (inv) and the exception it raised (exc, "none" when it returned).
World == [st |-> storage, md |-> mdir, mt |-> mounts, inv |-> <<>>, exc |-> "none"]

Exists(w, p) == IF p.root = "vol" THEN w.st[p.name] # "absent" ELSE w.md[p.name] # "absent"

\* os.makedirs(path, exist_ok=True)
Makedirs(w, p) ==
    IF Exists(w, p) THEN w
    ELSE IF p.root = "vol" THEN [w EXCEPT !.st[p.name] = "dir"]
    ELSE [w EXCEPT !.md[p.name] = "empty"]

\* os.rmdir(path) on a mount directory: only an empty directory that is no
\* mount point can be removed; anything else is an OSError.
RmdirOk(w, p) == p.root = "mnt" /\ w.md[p.name] = "empty" /\ w.mt[p.name] = "none"

Rmdir(w, p) == [w EXCEPT !.md[p.name] = "absent"]

Cmd(c, target, stdin, argv, exit) ==
    [cmd |-> c, target |-> target, stdin |-> stdin, argv |-> argv, exit |-> exit]

Ran(w, c) == [w EXCEPT !.inv = Append(w.inv, c)]

Raise(w, e) == [w EXCEPT !.exc = e]

\* The text `mount` prints: one line "d on <path> t" per mounted path.
\* A mount point that already carries a live mount can take a gocryptfs mount
\* on top of it: the mount table then holds two entries for the path.
Single == {"gocryptfs", "veracrypt", "other"}
Stacked == {"gocryptfs/gocryptfs", "gocryptfs/veracrypt", "gocryptfs/other"}

Over(lower) ==
    CASE lower = "gocryptfs" -> "gocryptfs/gocryptfs"
      [] lower = "veracrypt" -> "gocryptfs/veracrypt"
      [] lower = "other" -> "gocryptfs/other"
      [] OTHER -> "gocryptfs"

Under(m) ==
    CASE m = "gocryptfs/gocryptfs" -> "gocryptfs"
      [] m = "gocryptfs/veracrypt" -> "veracrypt"
      [] m = "gocryptfs/other" -> "other"
      [] OTHER -> "none"

Top(m) == IF m \in Stacked THEN "gocryptfs" ELSE m

LiveMounts(m) == IF m = "none" THEN 0 ELSE IF m \in Stacked THEN 2 ELSE 1

MountLine(n) == <<"d", " ", "o", "n", " ">> \o PathStr(MntPath(n)) \o <<" ", "t", "\n">>

RECURSIVE MountLines(_, _)
MountLines(mt, i) ==
    IF i > Len(NameSeq) THEN <<>>
    ELSE (IF mt[NameSeq[i]] # "none" THEN MountLine(NameSeq[i]) ELSE <<>>)
         \o (IF mt[NameSeq[i]] \in Stacked THEN MountLine(NameSeq[i]) ELSE <<>>)
         \o MountLines(mt, i + 1)

MountOutput(mt) == MountLines(mt, 1)

\* A snapshot: None (valid = FALSE) or the text of the mount table.
NoneSnap == [valid |-> FALSE, text |-> <<>>]
TextSnap(t) == [valid |-> TRUE, text |-> t]
\* ------------------------------------------------- external commands
\* Each external command is a set of outcomes: the worlds it may leave.  A
\* command may always fail (wrong password, tool error, busy mount); it can
\* succeed only when the file system and the mount table allow it.

LastExit(w) == w.inv[Len(w.inv)].exit

\* gocryptfs -q -init -passfile /dev/stdin <volume_path>
RunGocryptfsInit(w, vp, password) ==
    { Ran([w EXCEPT !.st[vp.name] = "dir_conf"],
          Cmd("gocryptfs_init", vp, password, NoSecret, 0)),
      Ran(w, Cmd("gocryptfs_init", vp, password, NoSecret, 1)) }

\* gocryptfs -q -passfile /dev/stdin <volume_path> <mount_path>: needs an
\* initialised cipher directory and a mount point that shows no entries. The
\* command itself does not ask whether the mount point is already a mount: a
\* mounted file system that shows no entries (a volume nothing was written
\* to) passes the same test as an empty directory.
RunGocryptfsMount(w, vp, mp, password) ==
    { Ran(w, Cmd("gocryptfs_mount", vp, password, NoSecret, 1)) }
    \cup
    IF /\ vp.root = "vol" /\ w.st[vp.name] = "dir_conf"
       /\ \/ w.md[mp.name] = "empty" /\ w.mt[mp.name] = "none"
          \/ w.mt[mp.name] \in Single
    THEN { Ran([w EXCEPT !.mt[mp.name] = Over(w.mt[mp.name])],
               Cmd("gocryptfs_mount", vp, password, NoSecret, 0)) }
    ELSE {}

\* fusermount -u <mount_path>: detaches the FUSE mount at that path.
RunFusermount(w, mp) ==
    { Ran(w, Cmd("fusermount_u", mp, NoSecret, NoSecret, 1)) }
    \cup
    IF mp.root = "mnt" /\ Top(w.mt[mp.name]) = "gocryptfs"
    THEN { Ran([w EXCEPT !.mt[mp.name] = Under(w.mt[mp.name])],
               Cmd("fusermount_u", mp, NoSecret, NoSecret, 0)) }
    ELSE {}

\* veracrypt --text --create <volume_path> --size <size> --password <password> ...
\* A failed run may or may not leave a partial container file behind.
RunVeracryptCreate(w, vp, password, size) ==
    { Ran([w EXCEPT !.st[vp.name] = "file"],
          Cmd("veracrypt_create", vp, NoSecret, password, 0)),
      Ran([w EXCEPT !.st[vp.name] = "file"],
          Cmd("veracrypt_create", vp, NoSecret, password, 1)),
      Ran(w, Cmd("veracrypt_create", vp, NoSecret, password, 1)) }

\* veracrypt --text --mount <volume_path> <mount_path> --password <password> ...
RunVeracryptMount(w, vp, mp, password) ==
    { Ran(w, Cmd("veracrypt_mount", vp, NoSecret, password, 1)) }
    \cup
    IF /\ vp.root = "vol" /\ w.st[vp.name] = "file"
       /\ w.md[mp.name] # "absent" /\ w.mt[mp.name] = "none"
    THEN { Ran([w EXCEPT !.mt[mp.name] = "veracrypt"],
               Cmd("veracrypt_mount", vp, NoSecret, password, 0)) }
    ELSE {}

\* veracrypt --text --dismount <path>: path names the container or its
\* mount directory; it succeeds only on a mounted veracrypt volume.
RunVeracryptDismount(w, target) ==
    { Ran(w, Cmd("veracrypt_dismount", target, NoSecret, NoSecret, 1)) }
    \cup
    IF w.mt[target.name] = "veracrypt"
    THEN { Ran([w EXCEPT !.mt[target.name] = "none"],
               Cmd("veracrypt_dismount", target, NoSecret, NoSecret, 0)) }
    ELSE {}

CreateCmds == {"gocryptfs_init", "veracrypt_create"}
MountCmds == {"gocryptfs_mount", "veracrypt_mount"}
UnmountCmds == {"fusermount_u", "veracrypt_dismount"}
BackendCmds == CreateCmds \cup MountCmds \cup UnmountCmds

\* Fault variant of Checked: check=True left out, a non-zero exit goes
\* unnoticed.
Checked_Ignore(w) == w

\* check=True: a non-zero exit raises CalledProcessError, which the tools
\* turn into RuntimeError("Failed to ...").
Checked(w) == IF LastExit(w) # 0 THEN Raise(w, "BackendFailure") ELSE w

\* Fault variant of RemoveMountDir: the mount directory is left in place.
RemoveMountDir_Skip(w, mp) == w

\* Fault variant of RemoveMountDir: the removal is attempted whatever the
\* unmount command returned.
RemoveMountDir_Always(w, mp) ==
    IF RmdirOk(w, mp) THEN Rmdir(w, mp)
    ELSE IF w.exc # "none" THEN w
    ELSE Raise(w, "CleanupFailure")

\* os.rmdir(mount_path) after the unmount command; OSError becomes
\* RuntimeError("Error removing mount directory ...").
RemoveMountDir(w, mp) ==
    IF w.exc # "none" THEN w
    ELSE IF RmdirOk(w, mp) THEN Rmdir(w, mp)
    ELSE Raise(w, "CleanupFailure")

\* ------------------------------------------------- backend tools
\* Fault variant of GocryptfsCreate: the existence test comes after the
\* directory was made and gocryptfs -init was run on it.
GocryptfsCreate_CheckAfterInit(w, vp, password, size) ==
    { IF Exists(w, vp) THEN Raise(w1, "AlreadyExists") ELSE Checked(w1)
      : w1 \in RunGocryptfsInit(Makedirs(w, vp), vp, password) }

\* GocryptfsTool.create_volume
GocryptfsCreate(w, vp, password, size) ==
    IF Exists(w, vp) THEN {Raise(w, "AlreadyExists")}
    ELSE {Checked(w1) : w1 \in RunGocryptfsInit(Makedirs(w, vp), vp, password)}

\* Fault variant of GocryptfsMount: the secret is handed over in a file
\* written into the mount directory.
GocryptfsMount_PassfileInDir(w, vp, mp, password) ==
    IF ~Exists(w, vp) THEN {Raise(w, "NotFound")}
    ELSE {Checked(w1) : w1 \in RunGocryptfsMount(
                                  [Makedirs(w, mp) EXCEPT !.md[mp.name] = "nonempty"],
                                  vp, mp, password)}

\* GocryptfsTool.mount_volume
GocryptfsMount(w, vp, mp, password) ==
    IF ~Exists(w, vp) THEN {Raise(w, "NotFound")}
    ELSE {Checked(w1) : w1 \in RunGocryptfsMount(Makedirs(w, mp), vp, mp, password)}

\* GocryptfsTool.unmount_volume
GocryptfsUnmount(w, mp) ==
    IF ~Exists(w, mp) THEN {Raise(w, "NotFound")}
    ELSE {RemoveMountDir(Checked(w1), mp) : w1 \in RunFusermount(w, mp)}

\* Fault variant of VeracryptCreate: no existence test.
VeracryptCreate_NoExistsCheck(w, vp, password, size) ==
    IF size = NoSize THEN {Raise(w, "TypeError")}
    ELSE {Checked(w1) : w1 \in RunVeracryptCreate(w, vp, password, size)}

\* Fault variant of VeracryptCreate: without a size the option is left out
\* and the tool is run.
VeracryptCreate_DefaultSize(w, vp, password, size) ==
    IF Exists(w, vp) THEN {Raise(w, "AlreadyExists")}
    ELSE {Checked(w1) : w1 \in RunVeracryptCreate(w, vp, password, size)}

\* VeraCryptTool.create_volume.  os.makedirs(self.volume_dir) leaves the
\* volumes root as it is.  With size None the argument list holds None and
\* subprocess.run raises TypeError before any process starts.
VeracryptCreate(w, vp, password, size) ==
    IF Exists(w, vp) THEN {Raise(w, "AlreadyExists")}
    ELSE IF size = NoSize THEN {Raise(w, "TypeError")}
    ELSE {Checked(w1) : w1 \in RunVeracryptCreate(w, vp, password, size)}

\* VeraCryptTool.mount_volume
VeracryptMount(w, vp, mp, password) ==
    IF ~Exists(w, vp) THEN {Raise(w, "NotFound")}
    ELSE {Checked(w1) : w1 \in RunVeracryptMount(Makedirs(w, mp), vp, mp, password)}

\* VeraCryptTool.unmount_volume: tests and dismounts volume_path, removes
\* mount_path.
VeracryptUnmount(w, vp, mp) ==
    IF ~Exists(w, vp) THEN {Raise(w, "NotFound")}
    ELSE {RemoveMountDir(Checked(w1), mp) : w1 \in RunVeracryptDismount(w, vp)}

\* self.tools[volume_type].create_volume(...)
ToolCreate(t, w, vp, password, size) ==
    IF t = "gocryptfs" THEN GocryptfsCreate(w, vp, password, size)
    ELSE VeracryptCreate(w, vp, password, size)

\* self.tools[volume_type].mount_volume(...)
ToolMount(t, w, vp, mp, password) ==
    IF t = "gocryptfs" THEN GocryptfsMount(w, vp, mp, password)
    ELSE VeracryptMount(w, vp, mp, password)

\* self.tools[volume_type].unmount_volume(...)
ToolUnmount(t, w, vp, mp) ==
    IF t = "gocryptfs" THEN GocryptfsUnmount(w, mp)
    ELSE VeracryptUnmount(w, vp, mp)

\* ------------------------------------------------- pure functions
\* VolumeController.is_mounted: f" {mount_path} " in self._mount_cmd_result
Controller_is_mounted(snap, n) ==
    Contains(snap.text, <<" ">> \o PathStr(MntPath(n)) \o <<" ">>)

\* VolumeManager.is_mounted: str(mount_path) in self._mount_cmd_result
Manager_is_mounted(snap, n) ==
    Contains(snap.text, PathStr(MntPath(n)))

\* Fault variant of detect_volume_type: the suffix is tested first.
detect_volume_type_SuffixFirst(st, n) ==
    IF EndsWith(PathStr(VolPath(n)), HcSuffix) THEN "veracrypt"
    ELSE IF st[n] = "dir_conf" THEN "gocryptfs"
    ELSE "unknown"

\* Fault variant of detect_volume_type: any directory counts as gocryptfs.
detect_volume_type_AnyDir(st, n) ==
    IF st[n] \in {"dir", "dir_conf"} THEN "gocryptfs"
    ELSE IF EndsWith(PathStr(VolPath(n)), HcSuffix) THEN "veracrypt"
    ELSE "unknown"

\* VolumeController.detect_volume_type, on the storage entries st
detect_volume_type(st, n) ==
    IF st[n] = "dir_conf" THEN "gocryptfs"
    ELSE IF EndsWith(PathStr(VolPath(n)), HcSuffix) THEN "veracrypt"
    ELSE "unknown"

\* One reported error: the step that reported it and its kind.
Err(step, kind) == [step |-> step, kind |-> kind]

\* VolumeController._run_mount_cmd: the text, or "" and an error report
\* when the query fails
Controller_run_mount_cmd(mt) ==
    { [snap |-> TextSnap(MountOutput(mt)), errors |-> {}],
      [snap |-> TextSnap(<<>>), errors |-> {Err("query", "MountQueryFailure")}] }

\* VolumeManager._run_mount_cmd: the text, or None and an error report
\* when the query fails
Manager_run_mount_cmd(mt) ==
    { [snap |-> TextSnap(MountOutput(mt)), errors |-> {}],
      [snap |-> NoneSnap, errors |-> {Err("query", "MountQueryFailure")}] }

\* ------------------------------------------------- operation records
\* A run of one operation: the world it leaves, the success and error
\* reports it printed, the exception that left it (raised), the prompts
\* shown, the Keepass database and the manager's metadata.
\* A cleanup sweep: the directories it asked about, those it removed, the
\* number of times it asked about each, and the answers it read.
NoSweep ==
    [offered |-> {}, removed |-> {}, asks |-> [n \in Names |-> 0], heard |-> <<>>]

Run0(w) ==
    [w |-> w, success |-> {}, errors |-> {}, raised |-> "none",
     prompts |-> {}, kp |-> kpStore, meta |-> metadata,
     sweep |-> NoSweep, rows |-> <<>>, show |-> FALSE, used |-> {},
     asked |-> <<>>, done |-> <<>>]

\* The run r, with the reports of the mount query q made in it.
WithQuery(r, q) == [r EXCEPT !.errors = @ \cup q.errors]

Fail(r, w, step, kind) ==
    [r EXCEPT !.w = Raise(w, "none"), !.errors = @ \cup {Err(step, kind)}]

\* What held for name n when the operation began.
Pre(n) ==
    IF n \in Names
    THEN [st |-> storage[n], md |-> mdir[n], mt |-> mounts[n], meta |-> metadata[n]]
    ELSE [st |-> "absent", md |-> "absent", mt |-> "none", meta |-> "none"]

ResOf(layer, op, n, t, auto, r) ==
    [layer |-> layer, op |-> op, name |-> n, vtype |-> t, auto |-> auto,
     success |-> r.success, errors |-> r.errors, raised |-> r.raised,
     inv |-> r.w.inv, prompts |-> r.prompts, pre |-> Pre(n),
     sweep |-> r.sweep, rows |-> r.rows, show |-> r.show, used |-> r.used,
     asked |-> r.asked, done |-> r.done]

\* generate_password(30, use_special=False): some fresh secret
Generated == {"g1"}

\* What the operator may type at a password prompt.
Typed == Secrets

\* ------------------------------------------------- VolumeController
\* The try block of VolumeController.mount_volume for a volume of type vt:
\* the secret from exactly one source, then the tool.  keepass_manager is
\* TRUE when one is passed; opening the database with the master key typed
\* may fail, and fetch_entry raises when the database has no entry.
Controller_mount_known(r, n, vt, password, keepass_manager) ==
    LET Mounted(r1, pw) ==
            { IF w1.exc # "none" THEN Fail(r1, w1, "mount", w1.exc)
              ELSE [r1 EXCEPT !.w = w1, !.success = @ \cup {"mount"}]
              : w1 \in ToolMount(vt, r1.w, VolPath(n), MntPath(n), pw) }
    IN
    IF keepass_manager
    THEN LET r1 == [r EXCEPT !.prompts = @ \cup {"master"}] IN
         {Fail(r1, r.w, "mount", "SecretStoreFailure")}
         \cup (IF r.kp[n] # NoSecret THEN Mounted(r1, r.kp[n]) ELSE {})
    ELSE IF password # NoSecret THEN Mounted(r, password)
    ELSE UNION {Mounted([r EXCEPT !.prompts = @ \cup {"volume"}], pw) : pw \in Typed}

\* Fault variant of Controller_mount_volume: no stop on an unknown type.
Controller_mount_volume_NoTypeCheck(r, n, password, keepass_manager) ==
    Controller_mount_known(r, n, detect_volume_type(r.w.st, n), password, keepass_manager)

\* VolumeController.mount_volume, started in run r (r.w is the world now)
Controller_mount_volume(r, n, password, keepass_manager) ==
    LET vt == detect_volume_type(r.w.st, n) IN
    IF vt = "unknown" THEN {Fail(r, r.w, "mount", "TypeUnknown")}
    ELSE Controller_mount_known(r, n, vt, password, keepass_manager)

\* What follows tool.create_volume in VolumeController.create_volume: the
\* success report, the Keepass entry, the auto-mount.
Controller_after_create(r, n, auto_mount, volume_password, keepass_manager) ==
    LET r1 == [r EXCEPT !.success = @ \cup {"create"}]
        Auto(r2) == IF auto_mount
                    THEN Controller_mount_volume(r2, n, volume_password, FALSE)
                    ELSE {r2}
    IN  IF keepass_manager
        THEN LET r2 == [r1 EXCEPT !.prompts = @ \cup {"master"}] IN
             {Fail(r2, r2.w, "create", "SecretStoreFailure")}
             \cup Auto([r2 EXCEPT !.kp[n] = volume_password])
        ELSE Auto(r1)

\* Fault variant of Controller_create_volume: the name of a veracrypt volume
\* is not tested.
Controller_create_volume_AnyName(r, t, n, size, auto_mount, password, keepass_manager) ==
    UNION {
      UNION { IF w1.exc # "none" THEN {Fail(r, w1, "create", w1.exc)}
              ELSE Controller_after_create([r EXCEPT !.w = w1], n, auto_mount,
                                           volume_password, keepass_manager)
              : w1 \in ToolCreate(t, r.w, VolPath(n), volume_password, size) }
      : volume_password \in IF password # NoSecret THEN {password} ELSE Generated }

\* VolumeController.create_volume
Controller_create_volume(r, t, n, size, auto_mount, password, keepass_manager) ==
    IF t = "veracrypt" /\ ~EndsWith(n, HcSuffix)
    THEN {Fail(r, r.w, "create", "InvalidName")}
    ELSE UNION {
           UNION { IF w1.exc # "none" THEN {Fail(r, w1, "create", w1.exc)}
                   ELSE Controller_after_create([r EXCEPT !.w = w1], n, auto_mount,
                                                volume_password, keepass_manager)
                   : w1 \in ToolCreate(t, r.w, VolPath(n), volume_password, size) }
           : volume_password \in IF password # NoSecret THEN {password} ELSE Generated }

\* VolumeController.unmount_volume
Controller_unmount_volume(r, n) ==
    LET vt == detect_volume_type(r.w.st, n) IN
    IF vt = "unknown" THEN {Fail(r, r.w, "unmount", "TypeUnknown")}
    ELSE { IF w1.exc # "none" THEN Fail(r, w1, "unmount", w1.exc)
           ELSE [r EXCEPT !.w = w1, !.success = @ \cup {"unmount"}]
           : w1 \in ToolUnmount(vt, r.w, MntPath(n), MntPath(n)) }

\* What the operator may type at the cleanup prompt: a yes that strip() and
\* lower() have to normalise, a no, nothing, and something else.
Answers == {" Y", "n", "", "x"}

AnswerSeqs == UNION {[1..k -> Answers] : k \in 0..MaxAnswers}

\* user_input.strip().lower()
StripLower(a) == IF a = " Y" THEN "y" ELSE a

\* Fault variant of CleanupDecision: every answer but "n" and "" removes.
CleanupDecision_RemoveUnlessNo(user_input) ==
    IF StripLower(user_input) \in {"n", ""} THEN "keep" ELSE "delete"

\* The branch of the prompt loop of cleanup taken on an answer: remove the
\* directory, keep it, or ask again.
CleanupDecision(user_input) ==
    LET a == StripLower(user_input) IN
    IF a = "y" THEN "delete"
    ELSE IF a \in {"n", ""} THEN "keep"
    ELSE "ask"

\* The orders in which iterdir may enumerate the entries S.
Enumerations(S) ==
    {f \in [1..Cardinality(S) -> S] : \A i, j \in DOMAIN f : f[i] = f[j] => i = j}

\* any(directory.iterdir()) is false: a mounted directory shows the content
\* of the volume (emptyView: the mounted volumes that are empty), an
\* unmounted one its own.
VisibleEmpty(w, n, emptyView) ==
    IF w.mt[n] # "none" THEN n \in emptyView ELSE w.md[n] = "empty"

\* VolumeController.cleanup over the directories todo, in that order, on the
\* snapshot snap the controller holds.  is_mounted on a snapshot that is
\* None raises TypeError; the prompt raises EOFError when the input has
\* ended; rmdir raises OSError on a mount point.  None of them is caught.
RECURSIVE CleanupFrom(_, _, _, _, _)
RECURSIVE CleanupAsk(_, _, _, _, _)
CleanupAsk(r, snap, todo, answers, emptyView) ==
    LET n == Head(todo)
        r1 == [r EXCEPT !.sweep.offered = @ \cup {n}, !.sweep.asks[n] = @ + 1,
                        !.prompts = @ \cup {"cleanup"}]
    IN  IF answers = <<>> THEN [r1 EXCEPT !.raised = "EOFError"]
        ELSE LET d == CleanupDecision(Head(answers))
                 r2 == [r1 EXCEPT !.sweep.heard =
                                     Append(@, [name |-> n, answer |-> Head(answers)])]
             IN
             IF d = "ask" THEN CleanupAsk(r2, snap, todo, Tail(answers), emptyView)
             ELSE IF d = "keep"
             THEN CleanupFrom(r2, snap, Tail(todo), Tail(answers), emptyView)
             ELSE IF RmdirOk(r2.w, MntPath(n))
             THEN CleanupFrom([r2 EXCEPT !.w = Rmdir(r2.w, MntPath(n)),
                                         !.sweep.removed = @ \cup {n},
                                         !.success = @ \cup {"cleanup"}],
                              snap, Tail(todo), Tail(answers), emptyView)
             ELSE [r2 EXCEPT !.raised = "OSError"]

CleanupFrom(r, snap, todo, answers, emptyView) ==
    IF todo = <<>> THEN r
    ELSE IF ~snap.valid THEN [r EXCEPT !.raised = "TypeError"]
    ELSE IF Controller_is_mounted(snap, Head(todo))
    THEN CleanupFrom(r, snap, Tail(todo), answers, emptyView)
    ELSE IF ~VisibleEmpty(r.w, Head(todo), emptyView)
    THEN CleanupFrom(r, snap, Tail(todo), answers, emptyView)
    ELSE CleanupAsk(r, snap, todo, answers, emptyView)

\* The sweep on snapshot snap reaches the prompt for some directory: the
\* only case in which it reads the operator's answers.
Prompts(w, snap, emptyView) ==
    /\ snap.valid
    /\ \E n \in Names : /\ w.md[n] # "absent"
                        /\ ~Controller_is_mounted(snap, n)
                        /\ VisibleEmpty(w, n, emptyView)

\* VolumeController.cleanup
Controller_cleanup(r, snap, at, order, answers, emptyView) ==
    CleanupFrom([r EXCEPT !.used = IF order = <<>> THEN {} ELSE {at}],
                snap, order, answers, emptyView)

\* ord(c) for the characters of the names.
Ord(c) == CASE c = "." -> 46 [] c = "c" -> 99 [] c = "h" -> 104 [] c = "v" -> 118

\* a < b on Python strings
RECURSIVE StrLess(_, _)
StrLess(a, b) ==
    IF b = <<>> THEN FALSE
    ELSE IF a = <<>> THEN TRUE
    ELSE IF Head(a) # Head(b) THEN Ord(Head(a)) < Ord(Head(b))
    ELSE StrLess(Tail(a), Tail(b))

\* sorted(items, key=...): a stable sort, items with equal keys keep the
\* order they came in.
RECURSIVE InsertByName(_, _)
InsertByName(x, sorted) ==
    IF sorted = <<>> THEN <<x>>
    ELSE IF StrLess(x, Head(sorted)) THEN <<x>> \o sorted
    ELSE <<Head(sorted)>> \o InsertByName(x, Tail(sorted))

RECURSIVE SortedByName(_)
SortedByName(items) ==
    IF items = <<>> THEN <<>>
    ELSE InsertByName(items[Len(items)], SortedByName(SubSeq(items, 1, Len(items) - 1)))

RECURSIVE InsertByCtime(_, _, _)
InsertByCtime(x, sorted, ct) ==
    IF sorted = <<>> THEN <<x>>
    ELSE IF ct[x] < ct[Head(sorted)] THEN <<x>> \o sorted
    ELSE <<Head(sorted)>> \o InsertByCtime(x, Tail(sorted), ct)

RECURSIVE SortedByCtime(_, _)
SortedByCtime(items, ct) ==
    IF items = <<>> THEN <<>>
    ELSE InsertByCtime(items[Len(items)],
                       SortedByCtime(SubSeq(items, 1, Len(items) - 1), ct), ct)

\* One reported volume.
Row(n, t, mounted) == [name |-> n, vtype |-> t, mounted |-> mounted]

\* The loop of VolumeController.list_volumes over the sorted items.
RECURSIVE Controller_list_rows(_, _, _, _)
Controller_list_rows(items, st, snap, show_unknown_fs) ==
    IF items = <<>> THEN <<>>
    ELSE LET n == Head(items)
             volume_type == detect_volume_type(st, n)
         IN  (IF volume_type # "unknown" \/ show_unknown_fs
              THEN <<Row(n, volume_type, Controller_is_mounted(snap, n))>>
              ELSE <<>>)
             \o Controller_list_rows(Tail(items), st, snap, show_unknown_fs)

\* VolumeController.list_volumes, on the snapshot q it has just taken; order
\* is the order in which iterdir gives the entries.
Controller_list_volumes(r, q, at, order, show_unknown_fs) ==
    [WithQuery(r, q) EXCEPT
        !.rows = Controller_list_rows(SortedByName(order), r.w.st, q.snap, show_unknown_fs),
        !.show = show_unknown_fs,
        !.used = {at}]

\* ------------------------------------------------- cli.py
\* VolumeController.get_unmounted_volumes, on the snapshot it has just taken
get_unmounted_volumes(st, snap) ==
    {n \in Names : st[n] # "absent" /\ ~Controller_is_mounted(snap, n)}

\* The branch `mount` of main: kpm is bound only under --use-keepass, so
\* without it the call of mount_volume raises UnboundLocalError; when the
\* construction of the KeepassManager raises, the error is printed, kpm
\* becomes None and mount_volume is called without a secret store.
Cli_mount_command(r, n, use_keepass, init_ok) ==
    IF ~use_keepass THEN {[r EXCEPT !.raised = "UnboundLocalError"]}
    ELSE IF init_ok THEN Controller_mount_volume(r, n, NoSecret, TRUE)
    ELSE Controller_mount_volume(
             [r EXCEPT !.errors = @ \cup {Err("keepass", "KeepassInitFailure")}],
             n, NoSecret, FALSE)

\* main for `cryptainer [--no-cleanup] mount [-k] n`, on a new controller:
\* without argcomplete, argcomplete.autocomplete raises NameError; with it
\* the parser is built on two snapshots (q1 for the choices of mount, q2 for
\* those of unmount), a name outside the choices ends the run in the
\* parser, then the sweep runs on q2 unless --no-cleanup, then the command.
Cli_main_mount(r, completion, q1, q2, n, no_cleanup, order, answers, emptyView, use_keepass, init_ok) ==
    IF ~completion THEN {[r EXCEPT !.raised = "NameError"]}
    ELSE LET r1 == WithQuery(WithQuery(r, q1), q2) IN
         IF n \notin get_unmounted_volumes(r.w.st, q1.snap)
         THEN {[Fail(r1, r.w, "parse", "InvalidChoice") EXCEPT !.raised = "SystemExit"]}
         ELSE LET r2 == IF no_cleanup THEN r1
                        ELSE Controller_cleanup(r1, q2.snap, nops + 1, order,
                                                answers, emptyView)
              IN  IF r2.raised # "none" THEN {r2}
                  ELSE Cli_mount_command(r2, n, use_keepass, init_ok)

\* The branch `create` of main: a veracrypt volume without --size is refused
\* before anything else; kpm is bound only under --use-keepass; no password
\* is passed on, so create_volume generates one.
Cli_create_command(r, t, n, size, auto_mount, use_keepass, init_ok) ==
    IF t = "veracrypt" /\ size = NoSize THEN {Fail(r, r.w, "create", "SizeRequired")}
    ELSE IF ~use_keepass THEN {[r EXCEPT !.raised = "UnboundLocalError"]}
    ELSE IF init_ok THEN Controller_create_volume(r, t, n, size, auto_mount, NoSecret, TRUE)
    ELSE Controller_create_volume(
             [r EXCEPT !.errors = @ \cup {Err("keepass", "KeepassInitFailure")}],
             t, n, size, auto_mount, NoSecret, FALSE)

\* main for `cryptainer [--no-cleanup] create ...`, on a new controller: the
\* parser is built as for every command, then the sweep runs on q2 unless
\* --no-cleanup, then the command.
Cli_main_create(r, completion, q1, q2, t, n, size, auto_mount, no_cleanup, order, answers, emptyView, use_keepass, init_ok) ==
    IF ~completion THEN {[r EXCEPT !.raised = "NameError"]}
    ELSE LET r1 == WithQuery(WithQuery(r, q1), q2)
             r2 == IF no_cleanup THEN r1
                   ELSE Controller_cleanup(r1, q2.snap, nops + 1, order, answers, emptyView)
         IN  IF r2.raised # "none" THEN {r2}
             ELSE Cli_create_command(r2, t, n, size, auto_mount, use_keepass, init_ok)

\* VolumeController.get_mounted_volumes, on the snapshot it has just taken
get_mounted_volumes(st, snap) ==
    {n \in Names : st[n] # "absent" /\ Controller_is_mounted(snap, n)}

\* The name lists a command may be given: nargs='+', repetitions allowed.
NameLists == UNION {[1..k -> Names] : k \in 1..MaxNames}

\* `for name in args.name: controller.mount_volume(name, keepass_manager=kpm)`:
\* one call per name, in the order given; an exception that leaves a call
\* ends the loop. r.done lists the names whose call returned.
RECURSIVE Cli_mount_names(_, _, _, _)
Cli_mount_names(r, names, use_keepass, init_ok) ==
    IF names = <<>> \/ r.raised # "none" THEN {r}
    ELSE UNION { Cli_mount_names(IF r1.raised = "none"
                                 THEN [r1 EXCEPT !.done = Append(@, Head(names))]
                                 ELSE r1,
                                 Tail(names), use_keepass, init_ok)
                 : r1 \in Cli_mount_command(r, Head(names), use_keepass, init_ok) }

\* `for name in args.name: controller.unmount_volume(name)`
RECURSIVE Cli_unmount_names(_, _)
Cli_unmount_names(r, names) ==
    IF names = <<>> \/ r.raised # "none" THEN {r}
    ELSE UNION { Cli_unmount_names(IF r1.raised = "none"
                                   THEN [r1 EXCEPT !.done = Append(@, Head(names))]
                                   ELSE r1,
                                   Tail(names))
                 : r1 \in Controller_unmount_volume(r, Head(names)) }

\* main for `cryptainer [--no-cleanup] mount|unmount [-k] name...`, on a new
\* controller: as Cli_main_mount, for a list of names; the names of mount
\* must be among the unmounted volumes of q1, those of unmount among the
\* mounted volumes of q2.
Cli_main_names(r, completion, q1, q2, cmd, names, no_cleanup, order, answers, emptyView, use_keepass, init_ok) ==
    IF ~completion THEN {[r EXCEPT !.raised = "NameError", !.asked = names]}
    ELSE LET r1 == [WithQuery(WithQuery(r, q1), q2) EXCEPT !.asked = names]
             choices == IF cmd = "mount" THEN get_unmounted_volumes(r.w.st, q1.snap)
                        ELSE get_mounted_volumes(r.w.st, q2.snap)
         IN  IF \E i \in DOMAIN names : names[i] \notin choices
             THEN {[Fail(r1, r.w, "parse", "InvalidChoice") EXCEPT !.raised = "SystemExit"]}
             ELSE LET r2 == IF no_cleanup THEN r1
                            ELSE Controller_cleanup(r1, q2.snap, nops + 1, order,
                                                    answers, emptyView)
                  IN  IF r2.raised # "none" THEN {r2}
                      ELSE IF cmd = "mount"
                      THEN Cli_mount_names(r2, names, use_keepass, init_ok)
                      ELSE Cli_unmount_names(r2, names)

\* ------------------------------------------------- VolumeManager
\* An exception that the except clause logs and raises again.
Reraise(r, w, step, kind) ==
    [Fail(r, w, step, kind) EXCEPT !.raised = kind]

\* What follows tool.create_volume in VolumeManager.create_volume: the
\* success report, the metadata record and its save (which may fail), the
\* auto-mount.
Manager_after_create(r, t, n, password, auto_mount) ==
    LET r1 == [r EXCEPT !.success = @ \cup {"create"}, !.meta[n] = t] IN
    {Reraise(r1, r1.w, "create", "SaveFailure")}
    \cup
    IF ~auto_mount THEN {r1}
    ELSE { IF w2.exc # "none" THEN Reraise(r1, w2, "create", w2.exc)
           ELSE [r1 EXCEPT !.w = w2, !.success = @ \cup {"mount"}]
           : w2 \in ToolMount(t, r1.w, VolPath(n), MntPath(n), password) }

\* VolumeManager.create_volume
Manager_create_volume(r, t, n, password, size, auto_mount) ==
    IF Exists(r.w, VolPath(n))
    THEN {[r EXCEPT !.raised = "AlreadyExists"]}
    ELSE IF t = "veracrypt" /\ size = NoSize
    THEN {Reraise(r, r.w, "create", "SizeRequired")}
    ELSE UNION { IF w1.exc # "none" THEN {Reraise(r, w1, "create", w1.exc)}
                 ELSE Manager_after_create([r EXCEPT !.w = w1], t, n, password, auto_mount)
                 : w1 \in ToolCreate(t, r.w, VolPath(n), password, size) }

\* VolumeManager.mount_volume
Manager_mount_volume(r, n, password) ==
    IF r.meta[n] = "none" THEN {Fail(r, r.w, "mount", "NotInMetadata")}
    ELSE IF r.meta[n] \notin Types THEN {Fail(r, r.w, "mount", "TypeUnknown")}
    ELSE { IF w1.exc # "none" THEN Fail(r, w1, "mount", w1.exc)
           ELSE [r EXCEPT !.w = w1, !.success = @ \cup {"mount"}]
           : w1 \in ToolMount(r.meta[n], Makedirs(r.w, MntPath(n)), VolPath(n), MntPath(n),
                              password) }

\* VolumeManager.unmount_volume
Manager_unmount_volume(r, n) ==
    IF r.meta[n] = "none" THEN {Fail(r, r.w, "unmount", "NotInMetadata")}
    ELSE IF r.meta[n] \notin Types THEN {Fail(r, r.w, "unmount", "TypeUnknown")}
    ELSE { IF w1.exc # "none" THEN Fail(r, w1, "unmount", w1.exc)
           ELSE IF ~Exists(w1, MntPath(n))
           THEN [r EXCEPT !.w = w1, !.success = @ \cup {"unmount"}]
           ELSE IF RmdirOk(w1, MntPath(n))
           THEN [r EXCEPT !.w = Rmdir(w1, MntPath(n)), !.success = @ \cup {"unmount"}]
           ELSE Fail(r, w1, "unmount", "CleanupFailure")
           : w1 \in ToolUnmount(r.meta[n], r.w, VolPath(n), MntPath(n)) }

\* The loop of VolumeManager.list_volumes over the sorted items: is_mounted
\* on a snapshot that is None raises TypeError at the first item.
RECURSIVE Manager_list_rows(_, _, _)
Manager_list_rows(items, meta, snap) ==
    IF items = <<>> THEN <<>>
    ELSE LET n == Head(items)
             volume_type == IF meta[n] = "none" THEN "unknown" ELSE meta[n]
         IN  <<Row(n, volume_type, Manager_is_mounted(snap, n))>>
             \o Manager_list_rows(Tail(items), meta, snap)

\* VolumeManager.list_volumes, on the snapshot snap the manager holds; ct is
\* st_ctime of the entries.
Manager_list_volumes(r, snap, at, order, ct) ==
    IF order = <<>> THEN r
    ELSE IF ~snap.valid THEN [r EXCEPT !.raised = "TypeError", !.used = {at}]
    ELSE [r EXCEPT !.rows = Manager_list_rows(SortedByCtime(order, ct), r.meta, snap),
                   !.used = {at}]

\* The time stamps a new entry may get: time stamps are coarse, so it may
\* share the stamp of the latest entry there is, or be later.
Clock ==
    LET old == {ctime[n] : n \in {m \in Names : storage[m] # "absent"}}
    IN  IF old = {} THEN {0}
        ELSE LET latest == CHOOSE c \in old : \A d \in old : d <= c
             IN  {latest, latest + 1}

\* st_ctime, as VolumeManager.list_volumes reads it, after an operation that
\* left the storage entries st.
Stamped(st) ==
    IF driver # "manager" THEN {ctime}
    ELSE { [n \in Names |-> IF storage[n] = "absent" /\ st[n] # "absent"
                             THEN c ELSE ctime[n]] : c \in Clock }

\* ------------------------------------------------- actions
\* The state after run r of an operation.
Apply(r, layer, op, n, t, auto) ==
    /\ storage' = r.w.st
    /\ mdir' = r.w.md
    /\ mounts' = r.w.mt
    /\ metadata' = r.meta
    /\ kpStore' = r.kp
    /\ ctime' \in Stamped(r.w.st)
    /\ res' = ResOf(layer, op, n, t, auto, r)
    /\ nops' = nops + 1
    /\ UNCHANGED <<driver, meta_file, proc>>

\* A create of type t and name n stops before it uses its other arguments:
\* the name lacks the suffix its type needs, or the entry exists.
StopsEarly(t, n) ==
    \/ t = "veracrypt" /\ ~EndsWith(n, HcSuffix)
    \/ storage[n] # "absent"

\* VolumeController.create_volume.  The arguments that the call does not
\* use are fixed.
C_create ==
    /\ driver = "controller"
    /\ nops < MaxOps
    /\ \E t \in Types, n \in Names :
       \E auto \in (IF StopsEarly(t, n) THEN {FALSE} ELSE BOOLEAN),
          password \in (IF StopsEarly(t, n) THEN {"s1"} ELSE {"s1", NoSecret}),
          kp \in (IF StopsEarly(t, n) THEN {FALSE} ELSE BOOLEAN),
          size \in (IF StopsEarly(t, n) THEN {NoSize} ELSE SizesFor(t)) :
          \E r \in Controller_create_volume(Run0(World), t, n, size, auto, password, kp) :
             Apply(r, "controller", "create", n, t, auto)
    /\ UNCHANGED <<cSnap, mSnap, cAt, mAt>>

C_mount ==
    /\ driver = "controller"
    /\ nops < MaxOps
    /\ \E n \in Names, password \in {"s1", NoSecret}, kp \in BOOLEAN :
          \E r \in Controller_mount_volume(Run0(World), n, password, kp) :
             Apply(r, "controller", "mount", n, detect_volume_type(storage, n), FALSE)
    /\ UNCHANGED <<cSnap, mSnap, cAt, mAt>>

C_unmount ==
    /\ driver = "controller"
    /\ nops < MaxOps
    /\ \E n \in Names :
          \E r \in Controller_unmount_volume(Run0(World), n) :
             Apply(r, "controller", "unmount", n, detect_volume_type(storage, n), FALSE)
    /\ UNCHANGED <<cSnap, mSnap, cAt, mAt>>

\* VolumeController.list_volumes: refreshes the snapshot, then reads it.
C_list ==
    /\ driver = "controller"
    /\ nops < MaxOps
    /\ \E q \in Controller_run_mount_cmd(mounts),
          order \in Enumerations({n \in Names : storage[n] # "absent"}),
          show_unknown_fs \in BOOLEAN :
          /\ cSnap' = q.snap
          /\ Apply(Controller_list_volumes(Run0(World), q, nops + 1, order, show_unknown_fs),
                   "controller", "list", <<>>, "none", FALSE)
    /\ cAt' = nops + 1
    /\ UNCHANGED <<mSnap, mAt>>

\* VolumeController.cleanup: does not refresh the snapshot.  The answers
\* are what the operator types at the prompts of the sweep: none when it
\* reaches no prompt, and none that it does not read.
C_cleanup ==
    /\ driver = "controller"
    /\ nops < MaxOps
    /\ \E order \in Enumerations({n \in Names : mdir[n] # "absent"}),
          emptyView \in SUBSET {n \in Names : mounts[n] # "none"} :
       \E answers \in (IF Prompts(World, cSnap, emptyView) THEN AnswerSeqs ELSE {<<>>}) :
          LET r == Controller_cleanup(Run0(World), cSnap, cAt, order, answers, emptyView)
          IN  /\ Len(r.sweep.heard) = Len(answers)
              /\ Apply(r, "controller", "cleanup", <<>>, "none", FALSE)
    /\ UNCHANGED <<cSnap, mSnap, cAt, mAt>>

\* One run of the program: cryptainer mount.  The inputs that the run does
\* not read are fixed, and the operator types only at the prompts shown.
Cli_mount ==
    /\ driver = "cli"
    /\ nops < MaxOps
    /\ \E n \in Names, completion \in BOOLEAN :
       \E q1 \in (IF completion THEN Controller_run_mount_cmd(mounts)
                  ELSE {CHOOSE q \in Controller_run_mount_cmd(mounts) : q.errors = {}}) :
       \E q2 \in (IF completion /\ n \in get_unmounted_volumes(storage, q1.snap)
                  THEN Controller_run_mount_cmd(mounts) ELSE {q1}),
          no_cleanup \in (IF completion /\ n \in get_unmounted_volumes(storage, q1.snap)
                          THEN BOOLEAN ELSE {TRUE}) :
       \E order \in (IF no_cleanup THEN {<<>>}
                     ELSE Enumerations({m \in Names : mdir[m] # "absent"})),
          emptyView \in (IF no_cleanup THEN {{}}
                         ELSE SUBSET {m \in Names : mounts[m] # "none"}) :
       \E answers \in (IF ~no_cleanup /\ Prompts(World, q2.snap, emptyView)
                       THEN AnswerSeqs ELSE {<<>>}) :
       LET swept == IF no_cleanup THEN Run0(World)
                    ELSE Controller_cleanup(Run0(World), q2.snap, nops + 1, order,
                                            answers, emptyView)
       IN
       /\ Len(swept.sweep.heard) = Len(answers)
       /\ \E use_keepass \in (IF /\ completion
                                 /\ n \in get_unmounted_volumes(storage, q1.snap)
                                 /\ swept.raised = "none"
                              THEN BOOLEAN ELSE {FALSE}) :
          \E init_ok \in (IF use_keepass THEN BOOLEAN ELSE {TRUE}) :
          \E r \in Cli_main_mount(Run0(World), completion, q1, q2, n, no_cleanup,
                                  order, answers, emptyView, use_keepass, init_ok) :
             Apply(r, "cli", "mount", n, detect_volume_type(storage, n), FALSE)
    /\ UNCHANGED <<cSnap, mSnap, cAt, mAt>>

\* One run of the program: cryptainer --no-cleanup create (the sweep that
\* precedes every command is in Cli_mount).  The inputs that the run does not
\* read are fixed.
Cli_create ==
    /\ driver = "cli"
    /\ nops < MaxOps
    /\ \E t \in Types, n \in Names, completion \in BOOLEAN :
       \E q1 \in (IF completion THEN Controller_run_mount_cmd(mounts)
                  ELSE {CHOOSE q \in Controller_run_mount_cmd(mounts) : q.errors = {}}) :
       \E q2 \in (IF completion THEN Controller_run_mount_cmd(mounts) ELSE {q1}),
          size \in (IF completion THEN SizesFor(t) ELSE {NoSize}) :
       \E use_keepass \in (IF completion /\ ~(t = "veracrypt" /\ size = NoSize)
                           THEN BOOLEAN ELSE {FALSE}) :
       \E init_ok \in (IF use_keepass THEN BOOLEAN ELSE {TRUE}),
          auto \in (IF use_keepass THEN BOOLEAN ELSE {FALSE}) :
       \E r \in Cli_main_create(Run0(World), completion, q1, q2, t, n, size, auto,
                                TRUE, <<>>, <<>>, {}, use_keepass, init_ok) :
          Apply(r, "cli", "create", n, t, auto)
    /\ UNCHANGED <<cSnap, mSnap, cAt, mAt>>

\* One run of the program: cryptainer mount or unmount with a list of names.
\* The inputs that the run does not read are fixed, and the operator types
\* only at the prompts shown.
Cli_names ==
    /\ driver = "cli"
    /\ nops < MaxOps
    /\ \E cmd \in {"mount", "unmount"}, names \in NameLists, completion \in BOOLEAN :
       \E q1 \in (IF completion THEN Controller_run_mount_cmd(mounts)
                  ELSE {CHOOSE q \in Controller_run_mount_cmd(mounts) : q.errors = {}}) :
       \E q2 \in (IF completion THEN Controller_run_mount_cmd(mounts) ELSE {q1}) :
       LET accepted ==
             /\ completion
             /\ \A i \in DOMAIN names :
                   names[i] \in (IF cmd = "mount"
                                 THEN get_unmounted_volumes(storage, q1.snap)
                                 ELSE get_mounted_volumes(storage, q2.snap))
       IN
       \E no_cleanup \in (IF accepted THEN BOOLEAN ELSE {TRUE}) :
       \E order \in (IF no_cleanup THEN {<<>>}
                     ELSE Enumerations({m \in Names : mdir[m] # "absent"})),
          emptyView \in (IF no_cleanup THEN {{}}
                         ELSE SUBSET {m \in Names : mounts[m] # "none"}) :
       \E answers \in (IF ~no_cleanup /\ Prompts(World, q2.snap, emptyView)
                       THEN AnswerSeqs ELSE {<<>>}) :
       LET swept == IF no_cleanup THEN Run0(World)
                    ELSE Controller_cleanup(Run0(World), q2.snap, nops + 1, order,
                                            answers, emptyView)
       IN
       /\ Len(swept.sweep.heard) = Len(answers)
       /\ \E use_keepass \in (IF accepted /\ cmd = "mount" /\ swept.raised = "none"
                              THEN BOOLEAN ELSE {FALSE}) :
          \E init_ok \in (IF use_keepass THEN BOOLEAN ELSE {TRUE}) :
          \E r \in Cli_main_names(Run0(World), completion, q1, q2, cmd, names, no_cleanup,
                                  order, answers, emptyView, use_keepass, init_ok) :
             /\ Apply(r, "cli", cmd, Head(names),
                      detect_volume_type(storage, Head(names)), FALSE)
             /\ cSnap' = q2.snap
             /\ cAt' = nops + 1
    /\ UNCHANGED <<mSnap, mAt>>

\* VolumeManager.create_volume.  The arguments that the call does not use
\* (the entry exists) are fixed.
M_create ==
    /\ driver = "manager"
    /\ nops < MaxOps
    /\ \E t \in Types, n \in Names :
       \E password \in (IF storage[n] # "absent" THEN {"s1"} ELSE Secrets),
          auto \in (IF storage[n] # "absent" THEN {FALSE} ELSE BOOLEAN),
          size \in (IF storage[n] # "absent" THEN {NoSize} ELSE SizesFor(t)) :
          \E r \in Manager_create_volume(Run0(World), t, n, password, size, auto) :
             IF r.raised = "none"
             THEN \E q \in Manager_run_mount_cmd(r.w.mt) :
                     /\ Apply(WithQuery(r, q), "manager", "create", n, t, auto)
                     /\ mSnap' = q.snap
                     /\ mAt' = nops + 1
             ELSE /\ Apply(r, "manager", "create", n, t, auto)
                  /\ UNCHANGED <<mSnap, mAt>>
    /\ UNCHANGED <<cSnap, cAt>>

M_mount ==
    /\ driver = "manager"
    /\ nops < MaxOps
    /\ \E n \in Names, password \in Secrets :
          \E r \in Manager_mount_volume(Run0(World), n, password) :
             IF metadata[n] \in Types
             THEN \E q \in Manager_run_mount_cmd(r.w.mt) :
                     /\ Apply(WithQuery(r, q), "manager", "mount", n, metadata[n], FALSE)
                     /\ mSnap' = q.snap
                     /\ mAt' = nops + 1
             ELSE /\ Apply(r, "manager", "mount", n, metadata[n], FALSE)
                  /\ UNCHANGED <<mSnap, mAt>>
    /\ UNCHANGED <<cSnap, cAt>>

M_unmount ==
    /\ driver = "manager"
    /\ nops < MaxOps
    /\ \E n \in Names :
          \E r \in Manager_unmount_volume(Run0(World), n) :
             IF metadata[n] \in Types
             THEN \E q \in Manager_run_mount_cmd(r.w.mt) :
                     /\ Apply(WithQuery(r, q), "manager", "unmount", n, metadata[n], FALSE)
                     /\ mSnap' = q.snap
                     /\ mAt' = nops + 1
             ELSE /\ Apply(r, "manager", "unmount", n, metadata[n], FALSE)
                  /\ UNCHANGED <<mSnap, mAt>>
    /\ UNCHANGED <<cSnap, cAt>>

\* VolumeManager.list_volumes: reads the snapshot the manager holds.
M_list ==
    /\ driver = "manager"
    /\ nops < MaxOps
    /\ \E order \in Enumerations({n \in Names : storage[n] # "absent"}) :
          Apply(Manager_list_volumes(Run0(World), mSnap, mAt, order, ctime),
                "manager", "list", <<>>, "none", FALSE)
    /\ UNCHANGED <<cSnap, mSnap, cAt, mAt>>

\* ------------------------------------------------- environment
EnvRes(op, n) == ResOf("env", op, n, "none", FALSE, Run0(World))

\* Something outside the program puts an entry under the volumes root.
ExtEntry ==
    /\ nops < MaxOps
    /\ \E n \in Names, kind \in {"file", "dir", "dir_conf"} :
          /\ storage[n] = "absent"
          /\ storage' = [storage EXCEPT ![n] = kind]
          /\ ctime' \in Stamped(storage')
          /\ res' = EnvRes("ext_entry", n)
    /\ nops' = nops + 1
    /\ UNCHANGED <<mdir, mounts, metadata, kpStore, cSnap, mSnap, cAt, mAt, driver,
                   meta_file, proc>>

\* Something outside the program leaves a directory under the mount root.
ExtMntDir ==
    /\ nops < MaxOps
    /\ \E n \in Names, kind \in {"empty", "nonempty"} :
          /\ mdir[n] = "absent"
          /\ mdir' = [mdir EXCEPT ![n] = kind]
          /\ res' = EnvRes("ext_mntdir", n)
    /\ nops' = nops + 1
    /\ UNCHANGED <<storage, mounts, metadata, kpStore, cSnap, mSnap, cAt, mAt, ctime, driver,
                   meta_file, proc>>

\* A mount made outside the program on a directory under the mount root.
ExtMount ==
    /\ nops < MaxOps
    /\ \E n \in Names :
          /\ mdir[n] # "absent" /\ mounts[n] = "none"
          /\ mounts' = [mounts EXCEPT ![n] = "other"]
          /\ res' = EnvRes("ext_mount", n)
    /\ nops' = nops + 1
    /\ UNCHANGED <<storage, mdir, metadata, kpStore, cSnap, mSnap, cAt, mAt, ctime, driver,
                   meta_file, proc>>

\* A manual umount, a crash of the FUSE process, a reboot.
ExtUnmount ==
    /\ nops < MaxOps
    /\ \E n \in Names :
          /\ mounts[n] # "none"
          /\ mounts' = [mounts EXCEPT ![n] = "none"]
          /\ res' = EnvRes("ext_unmount", n)
    /\ nops' = nops + 1
    /\ UNCHANGED <<storage, mdir, metadata, kpStore, cSnap, mSnap, cAt, mAt, ctime, driver,
                   meta_file, proc>>

\* ------------------------------------------------- the registry file
\* A registry: name -> "none" or a type.
EmptyMap == [n \in Names |-> "none"]

\* The file does not exist (_load_metadata then returns {}).
NoFile == [exists |-> FALSE, text |-> <<>>]

\* The pieces json.dump writes for a registry: the opening brace, one piece
\* per record, the closing brace.
Piece(tok, n, t) == [tok |-> tok, name |-> n, vtype |-> t]

RECURSIVE Records(_, _)
Records(keys, map) ==
    IF keys = <<>> THEN <<>>
    ELSE (IF map[Head(keys)] = "none" THEN <<>>
          ELSE <<Piece("record", Head(keys), map[Head(keys)])>>)
         \o Records(Tail(keys), map)

\* json.dump(self.metadata, f, indent=4)
Serialize(map) ==
    <<Piece("{", <<>>, "none")>> \o Records(NameSeq, map) \o <<Piece("}", <<>>, "none")>>

\* The text is one complete JSON object.
WellFormed(text) ==
    /\ Len(text) >= 2
    /\ text[1].tok = "{"
    /\ text[Len(text)].tok = "}"
    /\ \A i \in 2..(Len(text) - 1) : text[i].tok = "record"

\* VolumeManager._load_metadata: {} without a file, json.load of the file
\* otherwise, which raises JSONDecodeError on an empty or cut-off text.
load_metadata(f) ==
    IF ~f.exists THEN [raised |-> "none", map |-> EmptyMap]
    ELSE IF ~WellFormed(f.text) THEN [raised |-> "JSONDecodeError", map |-> EmptyMap]
    ELSE [raised |-> "none",
          map |-> [n \in Names |->
                     IF \E i \in DOMAIN f.text : f.text[i].name = n
                     THEN f.text[CHOOSE i \in DOMAIN f.text : f.text[i].name = n].vtype
                     ELSE "none"]]

\* manager.py:177-178 up to open(self.meta_file, "w"): the record of n is
\* set in memory and the file is opened for writing, which creates it or
\* cuts it to nothing.
S_open ==
    /\ proc.pc = "idle"
    /\ proc.saves < MaxSaves
    /\ \E n \in Names, t \in Types :
          /\ metadata' = [metadata EXCEPT ![n] = t]
          /\ proc' = [proc EXCEPT !.pc = "writing", !.prev = metadata,
                                  !.new = metadata', !.todo = Serialize(metadata')]
    /\ meta_file' = [exists |-> TRUE, text |-> <<>>]
    /\ UNCHANGED <<storage, mdir, mounts, kpStore, cSnap, mSnap, cAt, mAt, ctime, res,
                   driver, nops>>

\* json.dump: the next piece reaches the file.
S_write ==
    /\ proc.pc = "writing"
    /\ proc.todo # <<>>
    /\ meta_file' = [meta_file EXCEPT !.text = Append(@, Head(proc.todo))]
    /\ proc' = [proc EXCEPT !.todo = Tail(@)]
    /\ UNCHANGED <<storage, mdir, mounts, metadata, kpStore, cSnap, mSnap, cAt, mAt, ctime,
                   res, driver, nops>>

\* The end of the with block: the file is closed, the save is done.
S_close ==
    /\ proc.pc = "writing"
    /\ proc.todo = <<>>
    /\ proc' = [proc EXCEPT !.pc = "idle", !.prev = metadata, !.saves = @ + 1]
    /\ UNCHANGED <<storage, mdir, mounts, metadata, kpStore, cSnap, mSnap, cAt, mAt, ctime,
                   res, driver, nops, meta_file>>

\* The process stops: a kill, a crash, a power cut.
S_stop ==
    /\ proc.pc \in {"idle", "writing"}
    /\ proc' = [proc EXCEPT !.pc = "stopped"]
    /\ UNCHANGED <<storage, mdir, mounts, metadata, kpStore, cSnap, mSnap, cAt, mAt, ctime,
                   res, driver, nops, meta_file>>

\* The next start: VolumeManager.__init__ loads the registry file.
S_start ==
    /\ proc.pc = "stopped"
    /\ LET l == load_metadata(meta_file) IN
          /\ proc' = [proc EXCEPT !.pc = "started", !.loaded = l.raised]
          /\ metadata' = l.map
    /\ UNCHANGED <<storage, mdir, mounts, kpStore, cSnap, mSnap, cAt, mAt, ctime, res,
                   driver, nops, meta_file>>

\* ------------------------------------------------- specification
\* After construction: VolumeController.__init__ leaves its snapshot None,
\* VolumeManager.__init__ runs `mount` once and loads the metadata.
Init ==
    /\ storage = [n \in Names |-> "absent"]
    /\ mdir = [n \in Names |-> "absent"]
    /\ mounts = [n \in Names |-> "none"]
    /\ metadata = [n \in Names |-> "none"]
    /\ kpStore = [n \in Names |-> NoSecret]
    /\ driver \in {"controller", "manager", "cli"}
    /\ cSnap = NoneSnap
    /\ cAt = 0
    /\ mAt = 0
    /\ mSnap \in IF driver = "manager"
                 THEN {q.snap : q \in Manager_run_mount_cmd(mounts)} ELSE {NoneSnap}
    /\ ctime = [n \in Names |-> 0]
    /\ res = [layer |-> "init", op |-> "none", name |-> <<>>, vtype |-> "none",
              auto |-> FALSE, success |-> {}, errors |-> {}, raised |-> "none",
              inv |-> <<>>, prompts |-> {}, pre |-> Pre(<<>>),
              sweep |-> NoSweep, rows |-> <<>>, show |-> FALSE, used |-> {},
              asked |-> <<>>, done |-> <<>>]
    /\ nops = 0
    /\ meta_file = NoFile
    /\ proc = [pc |-> "idle", todo |-> <<>>, prev |-> EmptyMap, new |-> EmptyMap,
               saves |-> 0, loaded |-> "none"]

Next ==
    \/ C_create
    \/ C_mount
    \/ C_unmount
    \/ C_list
    \/ C_cleanup
    \/ Cli_mount
    \/ M_create
    \/ M_mount
    \/ M_unmount
    \/ M_list
    \/ ExtEntry
    \/ ExtMntDir
    \/ ExtMount
    \/ ExtUnmount

Spec == Init /\ [][Next]_vars

\* The three ways of creating a volume (the controller, the manager, the
\* command line), along with the entries the environment leaves under the
\* volumes root.
CreateNext == C_create \/ M_create \/ Cli_create \/ ExtEntry

CreateSpec == Init /\ [][CreateNext]_vars

\* Runs of the command line that mount or unmount lists of names, with what
\* the environment leaves under the two roots and in the mount table.
NamesInit == Init /\ driver = "cli"

NamesNext == Cli_names \/ ExtEntry \/ ExtMntDir \/ ExtMount \/ ExtUnmount

NamesSpec == NamesInit /\ [][NamesNext]_vars

\* A manager process that saves its registry, stops at any point, and is
\* started again.
SaveInit == Init /\ driver = "manager"

SaveNext == S_open \/ S_write \/ S_close \/ S_stop \/ S_start

SaveSpec == SaveInit /\ [][SaveNext]_vars

\* ------------------------------------------------- properties
IsProgram(x) == x.layer \in {"controller", "manager"}

Reported(x, kind) == \E e \in x.errors : e.kind = kind

StorageKinds == {"absent", "file", "dir", "dir_conf"}

C2_RejectedCreateFrame ==
    (IsProgram(res) /\ res.op = "create" /\ res.pre.st # "absent")
       => /\ storage[res.name] = res.pre.st
          /\ metadata[res.name] = res.pre.meta
          /\ detect_volume_type(storage, res.name)
                = detect_volume_type([storage EXCEPT ![res.name] = res.pre.st], res.name)
          /\ res.success = {}

\* The controller rejected a veracrypt create on an initialised gocryptfs
\* directory, which is still one.
C2_Witness ==
    /\ res.layer = "controller" /\ res.op = "create" /\ res.vtype = "veracrypt"
    /\ Reported(res, "AlreadyExists")
    /\ res.pre.st = "dir_conf" /\ storage[res.name] = "dir_conf"

\* C3: when create(t, n) has reported the creation a success, the storage
\* entry of n exists and the type of n resolves to t: by the registry record
\* in VolumeManager, by detect_volume_type in VolumeController.
C3_CreatedResolvesToType ==
    (IsProgram(res) /\ res.op = "create" /\ "create" \in res.success)
       => /\ storage[res.name] # "absent"
          /\ res.layer = "manager" => metadata[res.name] = res.vtype
          /\ res.layer = "controller" => detect_volume_type(storage, res.name) = res.vtype

\* The controller created a gocryptfs volume under a name ending in ".hc".
C3_Witness ==
    /\ res.layer = "controller" /\ res.op = "create" /\ "create" \in res.success
    /\ res.vtype = "gocryptfs" /\ res.name = NameHc

C5_UnmountOfUnmountedFails ==
    (IsProgram(res) /\ res.op = "unmount" /\ res.pre.mt = "none")
       => (res.errors # {} /\ res.success = {})

\* The unmount command was run on a left-over, empty, unmounted mount
\* directory and failed.
C5_Witness ==
    /\ IsProgram(res) /\ res.op = "unmount"
    /\ res.pre.mt = "none" /\ res.pre.md = "empty"
    /\ Reported(res, "BackendFailure")
    /\ Len(res.inv) = 1

\* White space, which delimits the tokens of the mount table text.
WhiteSpace == {" ", "\n"}

\* pat is a complete white-space-delimited token of text.
TokenIn(text, pat) ==
    \E i \in 1..(Len(text) - Len(pat) + 1) :
       /\ SubSeq(text, i, i + Len(pat) - 1) = pat
       /\ i = 1 \/ text[i - 1] \in WhiteSpace
       /\ i + Len(pat) - 1 = Len(text) \/ text[i + Len(pat)] \in WhiteSpace

\* C6: on the snapshot a class holds, is_mounted(n) is true exactly when
\* the mount path of n is a complete white-space-delimited token of the
\* snapshot; a path that is a proper prefix of a mounted path is not mounted.
C6_IsMountedWholeToken ==
    /\ cSnap.valid =>
          \A n \in Names :
             Controller_is_mounted(cSnap, n) <=> TokenIn(cSnap.text, PathStr(MntPath(n)))
    /\ mSnap.valid =>
          \A n \in Names :
             Manager_is_mounted(mSnap, n) <=> TokenIn(mSnap.text, PathStr(MntPath(n)))

\* No usable type for name n in the class of that layer: detect_volume_type
\* says "unknown", or the registry holds no record with a type.
TypeUnresolved(layer, n) ==
    IF layer = "controller" THEN detect_volume_type(storage, n) = "unknown"
    ELSE metadata[n] \notin Types

\* The error kinds with which a mount stops for want of a type:
\* controller.py:151 and manager.py:212, and manager.py:207 for a name
\* without a registry record.
TypeUnknownStop == {"TypeUnknown", "NotInMetadata"}

\* C7: a mount of a name whose type does not resolve ends with exactly one
\* reported error, of the type-unknown kind, reports no success, runs no
\* backend command, prompts for no secret, and leaves the mount root, the
\* mount table and the storage as they were.
C7_MountUnknownTypeStops ==
    [][ (/\ nops' = nops + 1
         /\ IsProgram(res') /\ res'.op = "mount"
         /\ TypeUnresolved(res'.layer, res'.name))
        => (/\ res'.success = {}
            /\ Cardinality(res'.errors) = 1
            /\ \A e \in res'.errors : e.step = "mount" /\ e.kind \in TypeUnknownStop
            /\ res'.raised = "none"
            /\ res'.inv = <<>>
            /\ res'.prompts = {}
            /\ mdir' = mdir /\ mounts' = mounts /\ storage' = storage) ]_vars

\* The controller refused to mount a directory without gocryptfs.conf whose
\* name has no ".hc" suffix.
C7_Witness ==
    /\ res.layer = "controller" /\ res.op = "mount"
    /\ Reported(res, "TypeUnknown")
    /\ storage[res.name] = "dir" /\ res.inv = <<>>

\* C8: detect_volume_type is a total function of the storage entry at the
\* path and of the name: its value is one of gocryptfs, veracrypt, unknown;
\* gocryptfs exactly for a directory holding gocryptfs.conf, also under a
\* name ending in ".hc"; veracrypt exactly for any other entry, present or
\* not, under a name ending in ".hc"; and no entry at another path changes it.
C8_DetectionTotalDeterministic ==
    \A n \in Names :
       LET d == detect_volume_type(storage, n) IN
       /\ d \in Types \cup {"unknown"}
       /\ d = "gocryptfs" <=> storage[n] = "dir_conf"
       /\ d = "veracrypt" <=> (storage[n] # "dir_conf" /\ EndsWith(n, HcSuffix))
       /\ d = "unknown" <=> (storage[n] # "dir_conf" /\ ~EndsWith(n, HcSuffix))
       /\ \A m \in Names \ {n}, k \in StorageKinds :
             detect_volume_type([storage EXCEPT ![m] = k], n) = d
       /\ (res.layer = "controller" /\ res.op \in {"mount", "unmount"} /\ res.name = n
             /\ storage[n] = res.pre.st)
          => res.vtype = d

\* A mount detected the type of an entry that carries both markers: a
\* directory with gocryptfs.conf under a name ending in ".hc".
C8_Witness ==
    /\ res.layer = "controller" /\ res.op = "mount" /\ res.name = NameHc
    /\ res.pre.st = "dir_conf" /\ res.vtype = "gocryptfs"
    /\ storage[NameV] = "dir"

\* A backend mount command was run by the operation and failed.
MountCommandFailed(x) ==
    \E i \in DOMAIN x.inv : x.inv[i].cmd \in MountCmds /\ x.inv[i].exit # 0

\* C9: when a create with auto-mount has created the volume and the mount
\* then fails, the failure is reported as a failure of the mount, the storage
\* entry and the registration of the volume remain, and the create is neither
\* reported nor raised as a failure.
C9_AutoMountFailureKeepsCreate ==
    (/\ IsProgram(res) /\ res.op = "create" /\ res.auto
     /\ "create" \in res.success /\ MountCommandFailed(res))
       => /\ \E e \in res.errors : e.step = "mount"
          /\ \A e \in res.errors : e.step # "create"
          /\ res.raised = "none"
          /\ storage[res.name] # "absent"
          /\ res.layer = "manager" => metadata[res.name] = res.vtype

\* The secret a command was handed, on stdin or in its arguments.
SecretOf(c) == IF c.stdin # NoSecret THEN c.stdin ELSE c.argv

\* C10: when a create with auto-mount has created the volume, the same
\* invocation runs a mount command on the same volume with the secret the
\* create command was handed, whatever else of the invocation failed.
C10_AutoMountAttempted ==
    (/\ IsProgram(res) /\ res.op = "create" /\ res.auto
     /\ "create" \in res.success)
       => \E i, j \in DOMAIN res.inv :
             /\ i < j
             /\ res.inv[i].cmd \in CreateCmds /\ res.inv[i].exit = 0
             /\ res.inv[j].cmd \in MountCmds
             /\ res.inv[j].target = res.inv[i].target
             /\ SecretOf(res.inv[j]) = SecretOf(res.inv[i])

\* The type detect_volume_type gave name n when the last operation began.
DetectedBefore(x) ==
    detect_volume_type([storage EXCEPT ![x.name] = x.pre.st], x.name)

\* C11: a mount or unmount resolves the type from the registry record when
\* there is one and from structural detection when there is none: for an
\* initialised gocryptfs directory or a ".hc" container file without a
\* record, the operation takes the detected type and goes on to the backend
\* instead of stopping for want of a type.
C11_ResolutionFallsBackToDetection ==
    (IsProgram(res) /\ res.op \in {"mount", "unmount"})
       => /\ res.pre.meta \in Types => res.vtype = res.pre.meta
          /\ (/\ res.pre.meta \notin Types
              /\ \/ res.pre.st = "dir_conf"
                 \/ res.pre.st = "file" /\ DetectedBefore(res) = "veracrypt")
             => /\ res.vtype = DetectedBefore(res)
                /\ \A e \in res.errors : e.kind \notin TypeUnknownStop

\* C12: every create and mount command of either backend is handed the
\* secret on its standard input and carries no secret in its arguments.
C12_SecretOnStdinOnly ==
    IsProgram(res)
       => \A i \in DOMAIN res.inv :
             res.inv[i].cmd \in CreateCmds \cup MountCmds
                => /\ res.inv[i].stdin # NoSecret
                   /\ res.inv[i].argv = NoSecret

\* C13: a cleanup sweep asks about, and removes, only directories under
\* the mount root that are, when the sweep runs, not mounted and empty.
C13_SweepOnlyUnmountedEmpty ==
    [][ (nops' = nops + 1 /\ res'.op = "cleanup")
        => \A n \in res'.sweep.offered \cup res'.sweep.removed :
              mounts[n] = "none" /\ mdir[n] = "empty" ]_vars

\* An explicit yes, and an explicit no or empty answer, at the prompt.
IsYes(a) == a \in {"y", "Y", " Y", "y "}
IsNo(a) == a \in {"n", ""}

\* The number of answers of the sweep about n that satisfy P.
CountHeard(heard, n, P(_)) ==
    Cardinality({i \in DOMAIN heard : heard[i].name = n /\ P(heard[i].answer)})

IsAmbiguous(a) == ~IsYes(a) /\ ~IsNo(a)

\* C14 as stated: the sweep asks about each residual directory once, keeps
\* it on every answer but an explicit yes, and goes on to the next.
C14_AsksOnceKeepsOnAmbiguous ==
    res.op = "cleanup"
       => /\ \A n \in Names : res.sweep.asks[n] <= 1
          /\ \A i \in DOMAIN res.sweep.heard :
                ~IsYes(res.sweep.heard[i].answer)
                   => /\ res.sweep.heard[i].name \notin res.sweep.removed
                      /\ i < Len(res.sweep.heard)
                            => res.sweep.heard[i + 1].name # res.sweep.heard[i].name

\* C14, amended: the sweep removes a directory only on an explicit yes and
\* keeps it on "n" or an empty answer, going on to the next directory in
\* both cases; on any other answer it asks about the same directory again;
\* so it asks about a directory one more time than it got such answers about
\* it, and ends when every prompt got "y", "n" or an empty answer, or when
\* the input ends.
C14_AsksUntilDecided ==
    res.op = "cleanup"
       => /\ \A i \in DOMAIN res.sweep.heard :
                LET h == res.sweep.heard[i]
                    last == i = Len(res.sweep.heard)
                IN  /\ IsYes(h.answer) =>
                          /\ h.name \in res.sweep.removed \/ res.raised = "OSError"
                          /\ ~last => res.sweep.heard[i + 1].name # h.name
                    /\ IsNo(h.answer) =>
                          /\ h.name \notin res.sweep.removed
                          /\ mdir[h.name] # "absent"
                          /\ ~last => res.sweep.heard[i + 1].name # h.name
                    /\ IsAmbiguous(h.answer) =>
                          /\ h.name \notin res.sweep.removed
                             \/ \E j \in (i + 1)..Len(res.sweep.heard) :
                                   res.sweep.heard[j].name = h.name
                                   /\ IsYes(res.sweep.heard[j].answer)
                          /\ ~last => res.sweep.heard[i + 1].name = h.name
                          /\ last => res.raised = "EOFError"
          /\ \A n \in res.sweep.removed :
                /\ mdir[n] = "absent"
                /\ CountHeard(res.sweep.heard, n, IsYes) = 1
          /\ \A n \in res.sweep.offered :
                res.sweep.asks[n] <= CountHeard(res.sweep.heard, n, IsAmbiguous) + 1
          /\ res.raised \in {"none", "EOFError", "OSError", "TypeError"}

\* A sweep asked twice about a directory, after an answer that was neither
\* yes nor no, kept it on the second answer and returned.
C14_Witness ==
    /\ res.op = "cleanup" /\ res.raised = "none"
    /\ \E n \in Names :
          /\ res.sweep.asks[n] = 2
          /\ n \notin res.sweep.removed
          /\ mdir[n] = "empty"

\* C15: list and cleanup decide whether a volume is mounted on a snapshot
\* of the mount table taken by that same operation, never on one taken by
\* an earlier operation or when the object was constructed.
C15_SnapshotTakenByOperation ==
    (IsProgram(res) /\ res.op \in {"list", "cleanup"})
       => \A at \in res.used : at = nops

\* The snapshot of the mount table that the object of a layer holds.
SnapOf(layer) == IF layer = "controller" THEN cSnap ELSE mSnap

\* C16: an operation whose query of the mount table failed leaves an
\* empty snapshot, on which nothing is mounted, and reports the failure;
\* a list or a cleanup that reads a snapshot left by a query, failed or
\* not, does not end with an exception raised by the reading.
C16_FailedQueryDegradesToEmpty ==
    IsProgram(res)
       => /\ Reported(res, "MountQueryFailure")
             => /\ SnapOf(res.layer).valid
                /\ SnapOf(res.layer).text = <<>>
          /\ (res.op \in {"list", "cleanup"} /\ res.raised = "TypeError")
             => res.layer = "controller" /\ res.used = {0}

\* The names of the entries that a list reported.
Listed(x) == {x.rows[i].name : i \in DOMAIN x.rows}

\* C17: a list that ran to its end reports every entry under the volumes
\* root whose type resolves, and an entry whose type does not resolve if
\* and only if it was asked to show unknown types.
C17_ListShowsUnknownOnlyOnRequest ==
    (IsProgram(res) /\ res.op = "list" /\ res.raised = "none")
       => \A n \in Names :
             n \in Listed(res)
                <=> /\ storage[n] # "absent"
                    /\ ~TypeUnresolved(res.layer, n) \/ res.show

\* The names of the rows of a list, in the order reported.
RowNames(x) == [i \in DOMAIN x.rows |-> x.rows[i].name]

\* The order in which the class of a layer lists the entries that iterdir
\* gave in the order `order`.
ListOrder(layer, order) ==
    IF layer = "controller" THEN SortedByName(order) ELSE SortedByCtime(order, ctime)

\* The subsequence of seq of the names in S.
Only(seq, S) ==
    LET In(n) == n \in S IN SelectSeq(seq, In)

\* C18: the sequence a list reported is the one it reports for every
\* order in which the directory enumeration may give the same entries,
\* entries with equal sort keys included.
C18_ListOrderIgnoresEnumeration ==
    (IsProgram(res) /\ res.op = "list" /\ res.raised = "none")
       => \A order \in Enumerations({n \in Names : storage[n] # "absent"}) :
             Only(ListOrder(res.layer, order), Listed(res)) = RowNames(res)

\* C20: after a create whose backend command exited with a failure, the
\* registry has no record of the name and nothing is left under the
\* volumes root at the name.
C20_FailedCreateLeavesNothing ==
    (/\ IsProgram(res) /\ res.op = "create"
     /\ \E i \in DOMAIN res.inv :
           res.inv[i].cmd \in CreateCmds /\ res.inv[i].exit # 0)
       => /\ metadata[res.name] = "none"
          /\ storage[res.name] = "absent"

\* The secret store was chosen for the mount and failed: it could not be
\* initialised, or opened, or it has no entry for the name.
SecretStoreFailed(x) ==
    Reported(x, "KeepassInitFailure") \/ Reported(x, "SecretStoreFailure")

\* C19: a mount takes its secret from one source; a mount whose secret
\* store failed ends with a reported error, asks for no volume password
\* and runs no backend mount.
C19_StoreFailureNoPromptFallback ==
    (res.layer \in {"controller", "cli"} /\ res.op = "mount")
       => /\ ~({"master", "volume"} \subseteq res.prompts)
          /\ SecretStoreFailed(res)
                => /\ "volume" \notin res.prompts
                   /\ \A i \in DOMAIN res.inv : res.inv[i].cmd \notin MountCmds
                   /\ "mount" \notin res.success

\* A mount that failed the way C21 names: the storage entry is missing, or
\* the backend mount command exited with a failure.
FailedMount(x) ==
    /\ IsProgram(x) /\ x.op = "mount"
    /\ Reported(x, "NotFound") \/ MountCommandFailed(x)

C22_FailedMountUnmountFrame ==
    (IsProgram(res) /\ res.op \in {"mount", "unmount"} /\ res.errors # {})
       => /\ (mdir[res.name] = "absent") <=> (res.pre.md = "absent")
          /\ metadata[res.name] = res.pre.meta

\* Some backend command of the operation exited with a failure, or the
\* save of the registry failed.
BackendOrRegistryFailed(x) ==
    \/ \E i \in DOMAIN x.inv : x.inv[i].exit # 0
    \/ Reported(x, "SaveFailure")

\* C23: a create, mount or unmount in which a backend command or the
\* registry failed reports the failure and returns: no exception leaves the
\* operation.
C23_FailuresContained ==
    (/\ IsProgram(res) /\ res.op \in {"create", "mount", "unmount"}
     /\ BackendOrRegistryFailed(res))
       => /\ res.errors # {}
          /\ res.raised = "none"

\* C24: a mount of a volume whose type resolves and whose storage entry
\* exists, called while the mount directory of the name holds entries and
\* carries no mount, fails with AlreadyExists and runs no backend mount
\* command.
C24_MountOnOccupiedDirRejected ==
    (/\ IsProgram(res) /\ res.op = "mount"
     /\ res.vtype \in Types /\ res.pre.st # "absent"
     /\ res.pre.md = "nonempty" /\ res.pre.mt = "none")
       => /\ Reported(res, "AlreadyExists")
          /\ \A i \in DOMAIN res.inv : res.inv[i].cmd \notin MountCmds

\* C25: whenever the process stopped, the registry that the next start
\* loads is the complete map of before the save in progress, or the
\* complete map being saved; loading never fails.
C25_SaveAtomicAcrossStop ==
    proc.pc = "started"
       => /\ proc.loaded = "none"
          /\ metadata \in {proc.prev, proc.new}

\* C26: every mount path carries at most one live mount, and a mount of a name
\* that is already mounted ends with a reported error, runs the backend mount
\* command at most once and leaves the existing mount as it was.
MountCmdRuns(x) == Cardinality({i \in 1..Len(x.inv) : x.inv[i].cmd \in MountCmds})

C27_RegistryAgreesWithDetection ==
    \A n \in Names :
       (metadata[n] \in Types /\ storage[n] # "absent")
          => metadata[n] = detect_volume_type(storage, n)

\* C28: for either backend, an unmount of a name whose mount directory does
\* not exist fails with NotFound and runs no unmount command, whether or not
\* the storage entry exists.
C28_UnmountWithoutDirNotFound ==
    (/\ IsProgram(res) /\ res.op = "unmount" /\ res.vtype \in Types
     /\ res.pre.md = "absent")
       => /\ Reported(res, "NotFound")
          /\ \A i \in 1..Len(res.inv) : res.inv[i].cmd \notin UnmountCmds

\* C29: a backend unmount tells its two failures apart. A non-zero exit of the
\* unmount command is reported as a failure of that command and leaves the
\* mount directory and the mount as they were; a removal of the mount
\* directory that fails after a zero exit is reported as CleanupFailure and
\* as nothing else; and the directory is removed only after a zero exit.
UnmountExits(x) == {x.inv[i].exit : i \in {j \in 1..Len(x.inv) : x.inv[j].cmd \in UnmountCmds}}

RefusedBeforeTool(r) ==
    /\ r.w.inv = <<>>
    /\ r.w.st = storage /\ r.w.md = mdir /\ r.w.mt = mounts
    /\ r.meta = metadata
    /\ r.success = {}
    /\ r.errors # {} \/ r.raised # "none"

C32_DetectionNeedsStorage ==
    /\ \A n \in Names :
          detect_volume_type(storage, n) \in Types => storage[n] # "absent"
    /\ (/\ res.layer = "controller" /\ res.op \in {"mount", "unmount"}
        /\ res.pre.st = "absent")
          => /\ Reported(res, "TypeUnknown")
             /\ res.inv = <<>>

\* C33: a create or mount command given without --use-keepass calls the
\* controller operation with no secret-store manager and does not end before
\* that call: the branch has the outcomes of the controller operation called
\* with keepass_manager None, and no run of the command line ends in
\* UnboundLocalError.
C33_NoStoreOptionReachesController ==
    /\ res.layer = "cli" => res.raised # "UnboundLocalError"
    /\ driver = "cli" =>
          \A n \in Names :
             /\ Cli_mount_command(Run0(World), n, FALSE, TRUE)
                   = Controller_mount_volume(Run0(World), n, NoSecret, FALSE)
             /\ \A t \in Types, size \in Sizes, auto \in BOOLEAN :
                   ~(t = "veracrypt" /\ size = NoSize)
                      => Cli_create_command(Run0(World), t, n, size, auto, FALSE, TRUE)
                           = Controller_create_volume(Run0(World), t, n, size, auto,
                                                      NoSecret, FALSE)

\* C34: the controller tests whether a name is mounted only on a snapshot that
\* some operation has captured: no operation of a controller, called directly
\* or by the command line, reads the snapshot the constructor left (None), in
\* whatever order the operations are called.
C34_SnapshotCapturedBeforeTest ==
    res.layer \in {"controller", "cli"}
       => /\ 0 \notin res.used
          /\ res.raised # "TypeError"

\* What ends a run of main before the branch of its command: no argcomplete,
\* a name the parser refuses, an exception out of the sweep.
EndedBeforeCommand(x) ==
    x.raised \in {"NameError", "SystemExit", "EOFError", "OSError", "TypeError"}

\* C35: a mount or unmount command that was given a list of names and
\* reached the branch of the command calls the controller once for each
\* name, in the order given, whatever failed for any of them.
C35_EveryNameProcessedInOrder ==
    (/\ res.layer = "cli" /\ res.op \in {"mount", "unmount"}
     /\ res.asked # <<>> /\ ~EndedBeforeCommand(res))
       => res.done = res.asked
====
